---- MODULE Spec2Model ----
(***************************************************************************)
(* spring_yaml_sanity.py: duplicated key values between a base             *)
(* application.yaml and its application-*.yaml profile files.              *)
(*                                                                         *)
(* Python values are modelled as follows.                                  *)
(*   str            [kind |-> "str",   s |-> "..."]                        *)
(*   int            [kind |-> "int",   n |-> i]                            *)
(*   float          [kind |-> "float", n |-> i]   (the float i.0)          *)
(*   float('nan')   [kind |-> "nan"]                                       *)
(*   bool           [kind |-> "bool",  b |-> TRUE/FALSE]                   *)
(*   None           [kind |-> "null"]                                      *)
(*   datetime.date  [kind |-> "other"]  (what safe_load gives a timestamp: *)
(*                                       neither scalar, dict nor list)    *)
(*   dict           [kind |-> "map",  items |-> << [k |-> key, v |-> x] >>]*)
(*                  in insertion order, keys unique                        *)
(*   list           [kind |-> "list", elems |-> << x, ... >>]              *)
(* Mapping keys are strings.  Documents are trees (no YAML aliases).       *)
(* dict and list objects are mutable: in the heap they are cells, and a    *)
(* value that refers to one is [kind |-> "ref", r |-> address].            *)
(***************************************************************************)
EXTENDS Integers, Sequences, FiniteSets, TLC

VARIABLES
    \* ---- one file being loaded (load_yaml_merged, flatten)
    lpc,        \* position in the load: "parse", "fold", "flatten", "done", "failed", "idle"
    raw,        \* the documents of the file being loaded, as parsed trees
    heap,       \* the dict and list objects allocated so far
    hdocs,      \* docs: the parsed documents as heap values
    docIdx,     \* number of documents of docs already folded
    merged,     \* address of the dict held by the local `merged`
    prevMerged, \* content of `merged` before the last fold step
    flat,       \* result of flatten(merged), once computed
    produced,   \* every document parsed or returned so far, with its content then
    nLoaded,    \* number of files loaded so far
    \* ---- one comparison (compare_and_report)
    cpc,        \* "ready", "compared", "idle"
    baseFile,   \* content of the base file
    profFile,   \* content of the profile file
    result,     \* what compare_and_report printed and returned
    \* ---- the whole run (main, walk_and_check, process_folder)
    pc,         \* "main", "walk", "compare", "folderEnd", "report", "exit", "crashed", "idle"
    rootOk,     \* root exists and is a directory
    visited,    \* number of directories os.walk has yielded
    folder,     \* the directory being processed: file name -> content
    basePath,   \* process_folder's base_path (a name of folder)
    profiles,   \* process_folder's profiles
    profIdx,    \* number of profiles already compared
    compared,   \* the comparisons made so far in this folder, in order
    folderTotal,\* process_folder's total
    total,      \* walk_and_check's total
    nDupLines,  \* number of "duplicates base value" lines printed so far
    nErrLines,  \* number of "Failed to load" lines printed so far
    exitCode    \* the SystemExit code, -1 while running

loadVars == << lpc, raw, heap, hdocs, docIdx, merged, prevMerged, flat, produced, nLoaded >>
cmpVars  == << cpc, baseFile, profFile, result >>
runVars  == << pc, rootOk, visited, folder, basePath, profiles, profIdx, compared,
               folderTotal, total, nDupLines, nErrLines, exitCode >>
vars     == << loadVars, cmpVars, runVars >>

----------------------------------------------------------------------------
(* Strings.  Python compares str by code point.                            *)

\* the characters of the model's strings, in runs of consecutive code points
Run45 == "-./0123456789"
Run65 == "ABCDEFGHIJKLMNOPQRSTUVWXYZ["
Run97 == "abcdefghijklmnopqrstuvwxyz"

IndexIn(run, c) == CHOOSE i \in 1..Len(run) : SubSeq(run, i, i) = c
InRun(run, c) == \E i \in 1..Len(run) : SubSeq(run, i, i) = c

\* ord(c)
Ord(c) ==
    IF InRun(Run45, c) THEN 44 + IndexIn(Run45, c)
    ELSE IF InRun(Run65, c) THEN 64 + IndexIn(Run65, c)
    ELSE IF c = "]" THEN 93
    ELSE IF c = "_" THEN 95
    ELSE 96 + IndexIn(Run97, c)

RECURSIVE StrLess(_, _)
\* s < t for two str
StrLess(s, t) ==
    IF t = "" THEN FALSE
    ELSE IF s = "" THEN TRUE
    ELSE IF Head(s) = Head(t) THEN StrLess(Tail(s), Tail(t))
    ELSE Ord(Head(s)) < Ord(Head(t))

Digits == << "0", "1", "2", "3", "4", "5", "6", "7", "8", "9" >>

RECURSIVE IntToStr(_)
\* str(i) of a natural number, as the f-string renders {i}
IntToStr(i) ==
    IF i < 10 THEN Digits[i + 1]
    ELSE IntToStr(i \div 10) \o Digits[(i % 10) + 1]

RECURSIVE GlobMatch(_, _)
\* Path.glob's match of one file name against a pattern whose only wildcard is *
GlobMatch(pat, name) ==
    IF pat = "" THEN name = ""
    ELSE IF Head(pat) = "*"
         THEN GlobMatch(Tail(pat), name) \/ (name # "" /\ GlobMatch(pat, Tail(name)))
         ELSE name # "" /\ Head(name) = Head(pat) /\ GlobMatch(Tail(pat), Tail(name))

----------------------------------------------------------------------------
(* Values.                                                                 *)

PyStr(s)    == [kind |-> "str", s |-> s]
PyInt(n)    == [kind |-> "int", n |-> n]
PyFloat(n)  == [kind |-> "float", n |-> n]
PyBool(b)   == [kind |-> "bool", b |-> b]
PyNone     == [kind |-> "null"]
PyNaN      == [kind |-> "nan"]
PyDate    == [kind |-> "other"]
Map(its)  == [kind |-> "map", items |-> its]
List(es)  == [kind |-> "list", elems |-> es]
Ref(r)    == [kind |-> "ref", r |-> r]
Item(k, v) == [k |-> k, v |-> v]

\* is_scalar(v): isinstance(v, (str, int, float, bool)) or v is None
is_scalar(v) == v.kind \in {"str", "int", "float", "nan", "bool", "null"}

\* k in d, for the items of a dict
HasKey(items, k) == \E i \in 1..Len(items) : items[i].k = k

\* d[k]
Get(items, k) == items[CHOOSE i \in 1..Len(items) : items[i].k = k].v

\* d[k] = v: an existing key keeps its place, a new key goes last
Put(items, k, v) ==
    IF HasKey(items, k)
    THEN [i \in 1..Len(items) |-> IF items[i].k = k THEN Item(k, v) ELSE items[i]]
    ELSE Append(items, Item(k, v))

----------------------------------------------------------------------------
(* The heap: yaml.safe_load_all builds fresh dict and list objects.        *)

RECURSIVE Alloc(_, _), AllocItems(_, _), AllocElems(_, _)
\* the object graph the parser builds for tree t: [h |-> heap, v |-> value]
Alloc(h, t) ==
    IF t.kind = "map"
    THEN LET r == AllocItems(h, t.items)
         IN  [h |-> Append(r.h, Map(r.seq)), v |-> Ref(Len(r.h) + 1)]
    ELSE IF t.kind = "list"
    THEN LET r == AllocElems(h, t.elems)
         IN  [h |-> Append(r.h, List(r.seq)), v |-> Ref(Len(r.h) + 1)]
    ELSE [h |-> h, v |-> t]

AllocItems(h, items) ==
    IF items = << >> THEN [h |-> h, seq |-> << >>]
    ELSE LET a == Alloc(h, Head(items).v)
             r == AllocItems(a.h, Tail(items))
         IN  [h |-> r.h, seq |-> << Item(Head(items).k, a.v) >> \o r.seq]

AllocElems(h, elems) ==
    IF elems = << >> THEN [h |-> h, seq |-> << >>]
    ELSE LET a == Alloc(h, Head(elems))
             r == AllocElems(a.h, Tail(elems))
         IN  [h |-> r.h, seq |-> << a.v >> \o r.seq]

RECURSIVE Deref(_, _)
\* the content of value v in heap h, as a tree
Deref(h, v) ==
    IF v.kind = "ref"
    THEN LET c == h[v.r]
         IN  IF c.kind = "map"
             THEN Map([i \in 1..Len(c.items) |-> Item(c.items[i].k, Deref(h, c.items[i].v))])
             ELSE List([i \in 1..Len(c.elems) |-> Deref(h, c.elems[i])])
    ELSE v

\* isinstance(v, dict)
IsDict(h, v) == v.kind = "ref" /\ h[v.r].kind = "map"

----------------------------------------------------------------------------
(* deep_merge, load_yaml_merged.                                           *)

\* out[k] = v for the dict at address out
SetItem(h, out, k, v) == [h EXCEPT ![out] = Map(Put(h[out].items, k, v))]

RECURSIVE deep_merge(_, _, _), MergeLoop(_, _, _), MergeLoopReplace(_, _, _)
\* the loop without the recursive case: out[k] = v for every key of b
MergeLoopReplace(h, out, bitems) ==
    IF bitems = << >> THEN h
    ELSE MergeLoopReplace(SetItem(h, out, Head(bitems).k, Head(bitems).v), out, Tail(bitems))

\* for k, v in b.items(): ...   (bitems: the items of b still to visit)
MergeLoop(h, out, bitems) ==
    IF bitems = << >> THEN h
    ELSE LET k == Head(bitems).k
             v == Head(bitems).v
             cur == h[out].items
         IN  IF HasKey(cur, k) /\ IsDict(h, Get(cur, k)) /\ IsDict(h, v)
             THEN LET m == deep_merge(h, Get(cur, k).r, v.r)
                  IN  MergeLoop(SetItem(m.h, out, k, Ref(m.r)), out, Tail(bitems))
             ELSE MergeLoop(SetItem(h, out, k, v), out, Tail(bitems))

\* deep_merge without the copy: out = a
deep_merge_in_place(h, a, b) ==
    [h |-> MergeLoop(h, a, h[b].items), r |-> a]

\* deep_merge(a, b) for the dicts at addresses a and b: [h |-> heap, r |-> address of out]
deep_merge(h, a, b) ==
    LET h1 == Append(h, h[a])          \* out = dict(a)
        out == Len(h) + 1
    IN  [h |-> MergeLoop(h1, out, h1[b].items), r |-> out]

\* a file's content: what open() and yaml.safe_load_all give
GoodFile(docs) == [ok |-> TRUE, docs |-> docs]
BadFile == [ok |-> FALSE, docs |-> << >>]

\* docs = list(yaml.safe_load_all(f)): [h |-> heap, seq |-> docs]
ParseDocs(h, trees) == AllocElems(h, trees)

\* merged: YAML = {}
NewDict(h) == [h |-> Append(h, Map(<< >>)), r |-> Len(h) + 1]

\* one iteration of `for d in docs`: [h |-> heap, m |-> address of merged]
FoldStep(h, m, d) ==
    IF d.kind = "null" THEN [h |-> h, m |-> m]
    ELSE LET w == IF IsDict(h, d) THEN [h |-> h, r |-> d.r]
                  ELSE [h |-> Append(h, Map(<< Item("_", d) >>)), r |-> Len(h) + 1]
             r == deep_merge(w.h, m, w.r)
         IN  [h |-> r.h, m |-> r.r]

RECURSIVE FoldDocs(_, _, _)
FoldDocs(h, m, ds) ==
    IF ds = << >> THEN [h |-> h, m |-> m]
    ELSE LET r == FoldStep(h, m, Head(ds)) IN FoldDocs(r.h, r.m, Tail(ds))

\* load_yaml_merged(path): [raised, data], data the returned dict as a tree
load_yaml_merged(file) ==
    IF ~file.ok THEN [raised |-> TRUE, data |-> Map(<< >>)]
    ELSE LET p == ParseDocs(<< >>, file.docs)
             n == NewDict(p.h)
             r == FoldDocs(n.h, n.r, p.seq)
         IN  [raised |-> FALSE, data |-> Deref(r.h, Ref(r.m))]

----------------------------------------------------------------------------
(* flatten.                                                                *)

RECURSIVE walk(_, _, _), WalkItems(_, _, _), WalkElems(_, _, _, _), WalkItemsNoDot(_, _, _)
\* the mapping branch joining prefix and key without the "."
WalkItemsNoDot(fl, items, pfx) ==
    IF items = << >> THEN fl
    ELSE WalkItemsNoDot(walk(fl, Head(items).v, pfx \o Head(items).k), Tail(items), pfx)

\* _walk(node, pfx), flat passed through
walk(fl, node, pfx) ==
    IF is_scalar(node) THEN Put(fl, pfx, node)
    ELSE IF node.kind = "map" THEN WalkItems(fl, node.items, pfx)
    ELSE IF node.kind = "list" THEN WalkElems(fl, node.elems, pfx, 0)
    ELSE fl

WalkItems(fl, items, pfx) ==
    IF items = << >> THEN fl
    ELSE LET k == Head(items).k
             key == IF pfx # "" THEN pfx \o "." \o k ELSE k
         IN  WalkItems(walk(fl, Head(items).v, key), Tail(items), pfx)

WalkElems(fl, elems, pfx, i) ==
    IF elems = << >> THEN fl
    ELSE LET key == IF pfx # "" THEN pfx \o "[" \o IntToStr(i) \o "]"
                    ELSE "[" \o IntToStr(i) \o "]"
         IN  WalkElems(walk(fl, Head(elems), key), Tail(elems), pfx, i + 1)

NonEmptyKey(e) == e.k # ""

\* flatten without the removal of the empty-key entry
flatten_unfiltered(data) == walk(<< >>, data, "")

\* flatten(data): the dict as items [k |-> path, v |-> scalar], in insertion order
flatten(data) == SelectSeq(walk(<< >>, data, ""), NonEmptyKey)

----------------------------------------------------------------------------
(* compare_and_report.                                                     *)

\* the number a bool, int or float stands for in a comparison (True is 1, False is 0)
NumVal(x) == IF x.kind = "bool" THEN (IF x.b THEN 1 ELSE 0) ELSE x.n

\* x == y for two scalars, as Python evaluates it
PyEq(x, y) ==
    IF x.kind \in { "int", "float", "bool" } /\ y.kind \in { "int", "float", "bool" }
    THEN NumVal(x) = NumVal(y)
    ELSE IF x.kind = "str" /\ y.kind = "str" THEN x.s = y.s
    ELSE x.kind = "null" /\ y.kind = "null"

RECURSIVE FindDuplicates(_, _), FindDuplicatesAnyValue(_, _)
\* the loop without the comparison of the two values
FindDuplicatesAnyValue(base_flat, prof_items) ==
    IF prof_items = << >> THEN << >>
    ELSE LET rest == FindDuplicatesAnyValue(base_flat, Tail(prof_items))
         IN  IF HasKey(base_flat, Head(prof_items).k)
             THEN << Head(prof_items) >> \o rest
             ELSE rest

\* for key, prof_val in prof_flat.items(): ... duplicates.append((key, prof_val))
FindDuplicates(base_flat, prof_items) ==
    IF prof_items = << >> THEN << >>
    ELSE LET key == Head(prof_items).k
             prof_val == Head(prof_items).v
             rest == FindDuplicates(base_flat, Tail(prof_items))
         IN  IF HasKey(base_flat, key) /\ PyEq(Get(base_flat, key), prof_val)
             THEN << Item(key, prof_val) >> \o rest
             ELSE rest

RECURSIVE InsertByKey(_, _)
\* e put into the sorted sequence s after every entry whose key is not greater
InsertByKey(s, e) ==
    IF s = << >> THEN << e >>
    ELSE IF StrLess(e.k, Head(s).k) THEN << e >> \o s
    ELSE << Head(s) >> \o InsertByKey(Tail(s), e)

RECURSIVE SortFrom(_, _)
SortFrom(done, todo) ==
    IF todo = << >> THEN done ELSE SortFrom(InsertByKey(done, Head(todo)), Tail(todo))

\* duplicates left as appended
Unsorted(dups) == dups

\* duplicates.sort(key=lambda kv: kv[0]): stable, ascending by key
SortByKey(dups) == SortFrom(<< >>, dups)

\* what a call printed and returned: the "duplicates base value" lines in order (key and
\* value of each; the repr of the value is not modelled), the files whose "Failed to
\* load" line was printed, the returned count, and whether an exception left the call
Outcome(count, dups, errs, raised) ==
    [count |-> count, dups |-> dups, errs |-> errs, raised |-> raised]

NoResult == Outcome(0, << >>, << >>, FALSE)

\* compare_and_report with the two try blocks removed: a load error leaves the call
compare_and_report_uncaught(base, prof) ==
    IF load_yaml_merged(base).raised \/ load_yaml_merged(prof).raised
    THEN Outcome(0, << >>, << >>, TRUE)
    ELSE LET duplicates == SortByKey(FindDuplicates(flatten(load_yaml_merged(base).data),
                                                     flatten(load_yaml_merged(prof).data)))
         IN  Outcome(Len(duplicates), duplicates, << >>, FALSE)

\* compare_and_report(base_path, profile_path), given the content of the two files
compare_and_report(base, prof) ==
    LET b == load_yaml_merged(base)
    IN  IF b.raised THEN Outcome(0, << >>, << "base" >>, FALSE)
        ELSE LET p == load_yaml_merged(prof)
             IN  IF p.raised THEN Outcome(0, << >>, << "profile" >>, FALSE)
                 ELSE LET base_flat == flatten(b.data)
                          prof_flat == flatten(p.data)
                          duplicates == SortByKey(FindDuplicates(base_flat, prof_flat))
                      IN  Outcome(Len(duplicates), duplicates, << >>, FALSE)

----------------------------------------------------------------------------
(* find_profile_files, process_folder, walk_and_check, main.               *)

\* a directory entry: a file with its content, or a subdirectory
FileEntry(file) == [dir |-> FALSE, file |-> file]
DirEntry == [dir |-> TRUE, file |-> BadFile]

\* what loading the path gives: open() of a directory raises
FileOf(f, name) == IF f[name].dir THEN BadFile ELSE f[name].file

RECURSIVE SeqOfSet(_)
\* the order in which the directory is listed: any order, here a fixed one
SeqOfSet(S) ==
    IF S = { } THEN << >>
    ELSE LET x == CHOOSE y \in S : TRUE IN << x >> \o SeqOfSet(S \ { x })

\* the file names a directory may hold
NameSet ==
    { "application.yaml", "application.yml", "application-dev-us.yaml",
      "application-qa.yml", "application-dev.txt" }

\* the patterns of find_profile_files, f"application-*-*{ext}" and f"application-*{ext}"
Patterns ==
    { "application-*-*.yaml", "application-*.yaml", "application-*-*.yml", "application-*.yml" }

\* GlobMatch for every pattern and name, evaluated once
Matches == [pattern \in Patterns |-> [n \in NameSet |-> GlobMatch(pattern, n)]]

\* folder.glob(pattern): the names of the folder that match, in listing order
Glob(f, pattern) ==
    LET match(n) == Matches[pattern][n] IN SelectSeq(SeqOfSet(DOMAIN f), match)

\* find_profile_files(folder): what the generator yields, in order
find_profile_files(f) ==
    Glob(f, "application-*-*.yaml") \o Glob(f, "application-*.yaml")
    \o Glob(f, "application-*-*.yml") \o Glob(f, "application-*.yml")

RECURSIVE Dedupe(_)
\* set(xs)
Dedupe(xs) ==
    IF xs = << >> THEN << >>
    ELSE LET x == Head(xs)
             differs(y) == y # x
         IN  << x >> \o Dedupe(SelectSeq(Tail(xs), differs))

RECURSIVE InsertName(_, _)
InsertName(s, n) ==
    IF s = << >> THEN << n >>
    ELSE IF StrLess(n, Head(s)) THEN << n >> \o s
    ELSE << Head(s) >> \o InsertName(Tail(s), n)

RECURSIVE SortedFrom(_, _)
SortedFrom(done, todo) ==
    IF todo = << >> THEN done ELSE SortedFrom(InsertName(done, Head(todo)), Tail(todo))

\* sorted(xs) of paths of one folder
Sorted(xs) == SortedFrom(<< >>, xs)

NotBaseName(n) == n \notin { "application.yaml", "application.yml" }

\* process_folder's profiles without the set(): sorted(find_profile_files(folder))
ProfilesOfNoSet(f) == SelectSeq(Sorted(find_profile_files(f)), NotBaseName)

\* process_folder's profiles: sorted(set(find_profile_files(folder))), base names removed
ProfilesOf(f) == SelectSeq(Sorted(Dedupe(find_profile_files(f))), NotBaseName)

\* process_folder's base_path: the first candidate that exists, "" for None
BasePathOf(f) ==
    IF "application.yaml" \in DOMAIN f THEN "application.yaml"
    ELSE IF "application.yml" \in DOMAIN f THEN "application.yml"
    ELSE ""

\* walk_and_check: "application.yaml" in filenames or "application.yml" in filenames
Eligible(f) ==
    \E n \in { "application.yaml", "application.yml" } : n \in DOMAIN f /\ ~f[n].dir

\* main's exit code with the test total > 1
ExitCodeOfOffByOne(t) == IF t > 1 THEN 1 ELSE 0

\* main: SystemExit(1) if total > 0 else SystemExit(0)
ExitCodeOf(t) == IF t > 0 THEN 1 ELSE 0

----------------------------------------------------------------------------
(* Loading one file, step by step: load_yaml_merged, then flatten.         *)

MaxDocs == 2      \* documents per file

LeafSet == { PyInt(1), PyBool(TRUE), PyNone, PyDate }
KeySet  == { "a", "b", "a.b", "a[0]", "" }

\* the values a document holds under a top-level key
InnerSet ==
    LeafSet
    \cup { Map(<< >>), Map(<< Item("b", PyInt(1)) >>), Map(<< Item("b", PyBool(TRUE)) >>) }
    \cup { List(<< PyInt(1) >>), List(<< Map(<< Item("b", PyInt(1)) >>) >>) }

\* the documents of a file: null, a bare scalar, a bare sequence, a mapping
DocSet ==
    { PyNone, PyBool(TRUE), List(<< PyInt(1) >>), Map(<< >>) }
    \cup { Map(<< Item(k, v) >>) : k \in KeySet, v \in InnerSet }

SeqsUpTo(S, n) == UNION { [1..m -> S] : m \in 0..n }

LoadFiles == { GoodFile(ds) : ds \in SeqsUpTo(DocSet, MaxDocs) } \cup { BadFile }

\* the documents a base and a profile are drawn from when both are loaded in turn
PairDocSet ==
    { PyNone, List(<< PyInt(1) >>),
      Map(<< Item("a", Map(<< Item("b", PyInt(1)) >>)) >>),
      Map(<< Item("a", Map(<< Item("a", PyInt(2)) >>)), Item("b", List(<< PyInt(1) >>)) >>),
      Map(<< Item("a", Map(<< Item("b", Map(<< Item("a", PyInt(1)) >>)) >>)) >>),
      Map(<< Item("a", Map(<< Item("b", Map(<< Item("b", PyInt(2)) >>)) >>)) >>) }

PairFiles == { GoodFile(ds) : ds \in SeqsUpTo(PairDocSet, MaxDocs) } \cup { BadFile }

Snap(h, v) == [v |-> v, content |-> Deref(h, v)]

cmpIdle == cpc = "idle" /\ baseFile = BadFile /\ profFile = BadFile /\ result = NoResult

RunStart ==
    /\ visited = 0 /\ folder = << >> /\ basePath = ""
    /\ profiles = << >> /\ profIdx = 0 /\ compared = << >> /\ folderTotal = 0 /\ total = 0
    /\ nDupLines = 0 /\ nErrLines = 0 /\ exitCode = -1

runIdle ==
    /\ pc = "idle" /\ rootOk = FALSE /\ RunStart

loadIdle ==
    /\ lpc = "idle" /\ raw = BadFile /\ heap = << >> /\ hdocs = << >> /\ docIdx = 0
    /\ merged = 0 /\ prevMerged = Map(<< >>) /\ flat = << >> /\ produced = << >> /\ nLoaded = 0

LoadStart(files) ==
    /\ lpc = "parse" /\ raw \in files /\ heap = << >> /\ hdocs = << >> /\ docIdx = 0
    /\ merged = 0 /\ prevMerged = Map(<< >>) /\ flat = << >> /\ produced = << >> /\ nLoaded = 0

InitLoad == LoadStart(LoadFiles) /\ cmpIdle /\ runIdle
InitPair == LoadStart(PairFiles) /\ cmpIdle /\ runIdle

\* with path.open(...) as f: docs = list(yaml.safe_load_all(f)); merged = {}
LParse ==
    /\ lpc = "parse"
    /\ IF ~raw.ok
       THEN /\ lpc' = "failed"
            /\ UNCHANGED << heap, hdocs, merged, produced >>
       ELSE LET p == ParseDocs(heap, raw.docs)
                n == NewDict(p.h)
            IN  /\ heap' = n.h
                /\ hdocs' = p.seq
                /\ merged' = n.r
                /\ produced' = produced
                                \o [i \in 1..Len(p.seq) |-> Snap(n.h, p.seq[i])]
                                \o << Snap(n.h, Ref(n.r)) >>
                /\ lpc' = "fold"
    /\ docIdx' = 0
    /\ prevMerged' = Map(<< >>)
    /\ UNCHANGED << raw, flat, nLoaded, cmpVars, runVars >>

\* one iteration of `for d in docs`
LFold ==
    /\ lpc = "fold"
    /\ docIdx < Len(hdocs)
    /\ LET r == FoldStep(heap, merged, hdocs[docIdx + 1])
       IN  /\ heap' = r.h
           /\ merged' = r.m
           /\ produced' = IF r.m = merged THEN produced
                          ELSE Append(produced, Snap(r.h, Ref(r.m)))
    /\ prevMerged' = Deref(heap, Ref(merged))
    /\ docIdx' = docIdx + 1
    /\ UNCHANGED << lpc, raw, hdocs, flat, nLoaded, cmpVars, runVars >>

\* return merged
LReturn ==
    /\ lpc = "fold"
    /\ docIdx = Len(hdocs)
    /\ lpc' = "returned"
    /\ nLoaded' = nLoaded + 1
    /\ UNCHANGED << raw, heap, hdocs, docIdx, merged, prevMerged, flat, produced,
                    cmpVars, runVars >>

\* flatten(data) of the returned document
LFlatten ==
    /\ lpc = "returned"
    /\ flat' = flatten(Deref(heap, Ref(merged)))
    /\ lpc' = "done"
    /\ UNCHANGED << raw, heap, hdocs, docIdx, merged, prevMerged, produced, nLoaded,
                    cmpVars, runVars >>

\* compare_and_report goes on from the base to the profile: the next file is opened
LNextFile ==
    /\ lpc = "returned"
    /\ nLoaded = 1
    /\ \E f \in PairFiles : raw' = f
    /\ lpc' = "parse"
    /\ UNCHANGED << heap, hdocs, docIdx, merged, prevMerged, flat, produced, nLoaded,
                    cmpVars, runVars >>

NextLoad == LParse \/ LFold \/ LReturn \/ LFlatten
NextPair == LParse \/ LFold \/ LReturn \/ LNextFile

SpecLoad == InitLoad /\ [][NextLoad]_vars
SpecPair == InitPair /\ [][NextPair]_vars

----------------------------------------------------------------------------
(* Documents as the specification describes them: leaf positions.          *)

ScalarKinds == { "str", "int", "float", "nan", "bool", "null" }

RECURSIVE Leaves(_, _)
\* the leaf scalars of a tree with their positions: a position is a sequence of
\* segments, << "f", key >> for a mapping key and << "i", index >> for a sequence index
Leaves(node, p) ==
    IF node.kind \in ScalarKinds THEN { [p |-> p, v |-> node] }
    ELSE IF node.kind = "map"
    THEN UNION { Leaves(node.items[i].v, Append(p, << "f", node.items[i].k >>))
                 : i \in 1..Len(node.items) }
    ELSE IF node.kind = "list"
    THEN UNION { Leaves(node.elems[i], Append(p, << "i", IntToStr(i - 1) >>))
                 : i \in 1..Len(node.elems) }
    ELSE { }

RECURSIVE Render(_)
\* the canonical path string of a position
Render(p) ==
    IF p = << >> THEN ""
    ELSE LET pre == Render(SubSeq(p, 1, Len(p) - 1))
             seg == p[Len(p)]
         IN  IF seg[1] = "i" THEN pre \o "[" \o seg[2] \o "]"
             ELSE IF pre = "" THEN seg[2]
             ELSE pre \o "." \o seg[2]

RECURSIVE HasChar(_, _)
HasChar(s, c) == s # "" /\ (Head(s) = c \/ HasChar(Tail(s), c))

RECURSIVE PlainKeys(_)
\* every mapping key of the tree is non-empty and holds neither "." nor "["
PlainKeys(node) ==
    IF node.kind = "map"
    THEN \A i \in 1..Len(node.items) :
            /\ node.items[i].k # ""
            /\ ~HasChar(node.items[i].k, ".")
            /\ ~HasChar(node.items[i].k, "[")
            /\ PlainKeys(node.items[i].v)
    ELSE IF node.kind = "list"
    THEN \A i \in 1..Len(node.elems) : PlainKeys(node.elems[i])
    ELSE TRUE

MergedTree == Deref(heap, Ref(merged))

FlatSet == { << flat[i].k, flat[i].v >> : i \in 1..Len(flat) }

\* flatten(D) is exactly the leaf scalars of D with a non-empty path, one entry each
OneEntryPerLeaf(D) ==
    LET LS == { l \in Leaves(D, << >>) : Render(l.p) # "" }
    IN  /\ \A l1, l2 \in LS : l1.p # l2.p => Render(l1.p) # Render(l2.p)
        /\ Len(flat) = Cardinality(LS)
        /\ FlatSet = { << Render(l.p), l.v >> : l \in LS }

\* C2 as stated: for every document D, flatten(D) has no duplicate path strings, two
\* leaf positions never render to the same path string, and flatten(D) holds exactly
\* one entry per leaf scalar of D that has a non-empty path.
C2_OneEntryPerLeaf_Any ==
    lpc = "done" => OneEntryPerLeaf(MergedTree)

\* C2 amended: the same, for every document whose mapping keys are non-empty strings
\* that hold neither "." nor "[".
C2_OneEntryPerLeaf_PlainKeys ==
    (lpc = "done" /\ PlainKeys(MergedTree)) => OneEntryPerLeaf(MergedTree)

\* a document with plain keys, a nested mapping and a sequence: two leaves flattened
C2_Witness ==
    /\ lpc = "done"
    /\ PlainKeys(MergedTree)
    /\ Len(flat) = 2
    /\ \E i \in 1..2 : flat[i].k = "a.b"
    /\ \E i \in 1..2 : flat[i].k = "b[0]"


----------------------------------------------------------------------------
(* The fold of load_yaml_merged.                                           *)

\* the document the fold merges for parsed document t (t not null)
NormDoc(t) == IF t.kind = "map" THEN t ELSE Map(<< Item("_", t) >>)

KeysOf(t) == { t.items[i].k : i \in 1..Len(t.items) }

\* deep_merge(x, y) of two mappings given as trees
MergeTree(x, y) ==
    LET ax == Alloc(<< >>, x)
        ay == Alloc(ax.h, y)
        r  == deep_merge(ay.h, ax.v.r, ay.v.r)
    IN  Deref(r.h, Ref(r.r))

\* m is the merge of b into a, key by key
MergedKeyByKey(a, b, m) ==
    /\ KeysOf(m) = KeysOf(a) \cup KeysOf(b)
    /\ \A k \in KeysOf(b) :
          Get(m.items, k) =
             IF k \in KeysOf(a) /\ Get(a.items, k).kind = "map" /\ Get(b.items, k).kind = "map"
             THEN MergeTree(Get(a.items, k), Get(b.items, k))
             ELSE Get(b.items, k)
    /\ \A k \in KeysOf(a) \ KeysOf(b) : Get(m.items, k) = Get(a.items, k)

\* the fold starts from the empty mapping and each step merges the next document
FoldIsKeyByKey ==
    lpc = "fold" =>
        IF docIdx = 0 THEN MergedTree = Map(<< >>)
        ELSE LET d == raw.docs[docIdx]
             IN  IF d.kind = "null" THEN MergedTree = prevMerged
                 ELSE MergedKeyByKey(prevMerged, NormDoc(d), MergedTree)

\* the documents of the file that hold a scalar at position p
SettersOf(p) ==
    { j \in 1..Len(raw.docs) :
        /\ raw.docs[j].kind # "null"
        /\ \E l \in Leaves(NormDoc(raw.docs[j]), << >>) : l.p = p }

Max(S) == CHOOSE x \in S : \A y \in S : y <= x

\* the scalar document j holds at position p
ScalarAt(j, p) == (CHOOSE l \in Leaves(NormDoc(raw.docs[j]), << >>) : l.p = p).v

AllPositions ==
    UNION { { l.p : l \in Leaves(NormDoc(raw.docs[j]), << >>) }
            : j \in { i \in 1..Len(raw.docs) : raw.docs[i].kind # "null" } }

\* C3 as stated: the fold is key by key, and for any list of documents the last
\* document that sets a scalar at a path decides the merged value at that path.
C3_LastSetterDecides ==
    /\ FoldIsKeyByKey
    /\ lpc \in { "returned", "done" } =>
          \A p \in AllPositions :
              [p |-> p, v |-> ScalarAt(Max(SettersOf(p)), p)] \in Leaves(MergedTree, << >>)

\* C3 amended: the fold is key by key, and every scalar the merged document holds at a
\* path is the one set by the last document that sets a scalar at that path.
C3_MergedScalarFromLastSetter ==
    /\ FoldIsKeyByKey
    /\ lpc \in { "returned", "done" } =>
          \A l \in Leaves(MergedTree, << >>) :
              /\ SettersOf(l.p) # { }
              /\ l.v = ScalarAt(Max(SettersOf(l.p)), l.p)

\* two documents merged recursively under a common key, the second overriding a scalar
C3_Witness ==
    /\ lpc = "returned"
    /\ docIdx = 2
    /\ raw.docs[1].kind = "map" /\ raw.docs[2].kind = "map"
    /\ \E k \in KeysOf(raw.docs[1]) \cap KeysOf(raw.docs[2]) :
          /\ Get(raw.docs[1].items, k).kind = "map"
          /\ Get(raw.docs[2].items, k).kind = "map"
          /\ \E l1 \in Leaves(raw.docs[1], << >>), l2 \in Leaves(raw.docs[2], << >>) :
                l1.p = l2.p /\ l1.v # l2.v /\ l2 \in Leaves(MergedTree, << >>)

----------------------------------------------------------------------------
(* The root-scalar edge case.                                              *)

SoleScalar == raw.ok /\ Len(raw.docs) = 1 /\ raw.docs[1].kind \in ScalarKinds

\* C4 as stated: a file whose sole document is a bare scalar loads and flattens to an
\* empty flattened document.
C4_SoleScalarFlattensEmpty ==
    (lpc = "done" /\ SoleScalar) => flat = << >>

\* C4 amended: a sole bare scalar other than null is wrapped under "_" and flattens to
\* the single entry "_"; a sole null document flattens to nothing; flatten of the bare
\* scalar itself is empty (its empty-path entry is filtered out).
C4_SoleScalarFlattensToUnderscore ==
    (lpc = "done" /\ SoleScalar) =>
        /\ flat = IF raw.docs[1].kind = "null" THEN << >> ELSE << Item("_", raw.docs[1]) >>
        /\ flatten(raw.docs[1]) = << >>

\* the file `true` loaded and flattened
C4_Witness ==
    lpc = "done" /\ raw.ok /\ raw.docs = << PyBool(TRUE) >> /\ Len(flat) = 1

----------------------------------------------------------------------------
(* deep_merge and its arguments.                                           *)

\* C10: every parsed document and every dict deep_merge has returned still has the
\* content it had when it was produced, and each returned dict is a new object.
C10_ProducedUnchanged ==
    /\ \A i \in 1..Len(produced) : Deref(heap, produced[i].v) = produced[i].content
    /\ \A i, j \in 1..Len(produced) :
          (i < j /\ produced[i].v.kind = "ref" /\ produced[j].v.kind = "ref")
             => produced[i].v # produced[j].v

\* the profile's two documents merged two levels deep, after a base that was merged too
C10_Witness ==
    /\ lpc = "returned"
    /\ nLoaded = 2
    /\ docIdx = 2
    /\ Len(produced) >= 8
    /\ \E i \in 1..Len(MergedTree.items) :
          /\ MergedTree.items[i].v.kind = "map"
          /\ \E j \in 1..Len(MergedTree.items[i].v.items) :
                /\ MergedTree.items[i].v.items[j].v.kind = "map"
                /\ Len(MergedTree.items[i].v.items[j].v.items) = 2


----------------------------------------------------------------------------
(* One comparison of a base and a profile.                                 *)

MaxKeys == 2      \* entries per mapping of a compared document

CmpScalars == { PyInt(1), PyInt(2), PyFloat(1), PyBool(TRUE), PyStr("1"), PyNone, PyNaN }
CmpKeys == { "a", "b", "B" }

CmpDocSet ==
    { Map(<< Item("a", v) >>) : v \in CmpScalars }
    \cup { Map(q) : q \in { x \in SeqsUpTo({ Item(k, v) : k \in CmpKeys, v \in { PyInt(1), PyInt(2) } },
                                           MaxKeys)
                            : \A i, j \in 1..Len(x) : i # j => x[i].k # x[j].k } }
    \cup { Map(<< Item("b", List(<< PyInt(1), PyInt(1) >>)),
                  Item("a", Map(<< Item("b", PyInt(1)), Item("B", PyInt(1)) >>)),
                  Item("B", PyInt(1)) >>),
           Map(<< Item("b", List(<< PyInt(1), PyInt(2) >>)),
                  Item("a", Map(<< Item("B", PyInt(1)), Item("b", PyInt(1)) >>)),
                  Item("a.b", PyInt(2)) >>) }

CmpFiles == { GoodFile(<< d >>) : d \in CmpDocSet } \cup { BadFile }

InitCompare ==
    /\ cpc = "ready" /\ baseFile \in CmpFiles /\ profFile \in CmpFiles /\ result = NoResult
    /\ loadIdle /\ runIdle

\* compare_and_report(base_path, profile_path)
CCompare ==
    /\ cpc = "ready"
    /\ result' = compare_and_report(baseFile, profFile)
    /\ cpc' = "compared"
    /\ UNCHANGED << baseFile, profFile, loadVars, runVars >>

NextCompare == CCompare

SpecCompare == InitCompare /\ [][NextCompare]_vars

\* a flattened document as a function from its paths to its values
FlatFn(fl) == [p \in { fl[i].k : i \in 1..Len(fl) } |-> Get(fl, p)]

BaseFlat == FlatFn(flatten(load_yaml_merged(baseFile).data))
ProfFlat == FlatFn(flatten(load_yaml_merged(profFile).data))

BothLoaded == baseFile.ok /\ profFile.ok

ResultSet == { << result.dups[i].k, result.dups[i].v >> : i \in 1..Len(result.dups) }

\* C1: the findings are exactly the pairs (p, P[p]) with p a path of the profile P and
\* of the base B and B[p] == P[p]; each is reported once; a path only in the base or
\* with two different values is not reported.
C1_FindingsAreEqualSharedPaths ==
    (cpc = "compared" /\ BothLoaded) =>
        /\ ResultSet = { << p, ProfFlat[p] >> :
                            p \in { q \in DOMAIN ProfFlat \cap DOMAIN BaseFlat :
                                      PyEq(BaseFlat[q], ProfFlat[q]) } }
        /\ Len(result.dups) = Cardinality(ResultSet)
        /\ result.count = Len(result.dups)

\* a base-only path, a shared path with different values and a reported shared path
C1_Witness ==
    /\ cpc = "compared" /\ BothLoaded
    /\ Len(result.dups) >= 1
    /\ DOMAIN BaseFlat \ DOMAIN ProfFlat # { }
    /\ \E p \in DOMAIN ProfFlat \cap DOMAIN BaseFlat : ~PyEq(BaseFlat[p], ProfFlat[p])

Perms(q) ==
    { [i \in 1..Len(q) |-> q[f[i]]] :
        f \in { g \in [1..Len(q) -> 1..Len(q)] : \A i, j \in 1..Len(q) : i # j => g[i] # g[j] } }

SameFlat(d1, d2) == FlatFn(flatten(d1)) = FlatFn(flatten(d2))

\* C7: the findings are in strictly ascending order of their path strings, and two
\* documents with the same flattened content in another key order give the same findings.
C7_FindingsSortedAndOrderFree ==
    (cpc = "compared" /\ BothLoaded) =>
        /\ \A i \in 1..(Len(result.dups) - 1) : StrLess(result.dups[i].k, result.dups[i + 1].k)
        /\ \A pq \in Perms(profFile.docs[1].items), bq \in Perms(baseFile.docs[1].items) :
              (SameFlat(Map(pq), profFile.docs[1]) /\ SameFlat(Map(bq), baseFile.docs[1]))
                 => compare_and_report(GoodFile(<< Map(bq) >>), GoodFile(<< Map(pq) >>)).dups
                      = result.dups

\* three findings whose order in the profile is not the ascending one
C7_Witness ==
    /\ cpc = "compared" /\ BothLoaded
    /\ Len(result.dups) >= 3
    /\ LET pf == flatten(load_yaml_merged(profFile).data)
       IN  \E i, j \in 1..Len(pf) : i < j /\ StrLess(pf[j].k, pf[i].k)
                                     /\ HasKey(result.dups, pf[i].k) /\ HasKey(result.dups, pf[j].k)

----------------------------------------------------------------------------
(* The whole run.  Of stdout, the ERROR lines are counted; the progress     *)
(* lines (Folder, Base, No profile-specific files, ...) are not modelled.  *)

MaxFolders == 2      \* directories os.walk yields
MaxEntries == 3      \* entries of a directory

RunFileA == GoodFile(<< Map(<< Item("a", PyInt(1)), Item("b", PyInt(1)) >>) >>)
RunFileB == GoodFile(<< Map(<< Item("a", PyInt(1)), Item("b", PyInt(2)) >>) >>)

EntrySet == { FileEntry(RunFileA), FileEntry(RunFileB), FileEntry(BadFile), DirEntry }

FolderSet ==
    UNION { [S -> EntrySet] : S \in { T \in SUBSET NameSet : Cardinality(T) <= MaxEntries } }

InitRun ==
    /\ pc = "main" /\ rootOk \in BOOLEAN /\ RunStart
    /\ loadIdle /\ cmpIdle

\* main, up to the call of walk_and_check
RMain ==
    /\ pc = "main"
    /\ IF ~rootOk
       THEN pc' = "exit" /\ exitCode' = 2
       ELSE pc' = "walk" /\ UNCHANGED exitCode
    /\ UNCHANGED << rootOk, visited, folder, basePath, profiles, profIdx, compared,
                    folderTotal, total, nDupLines, nErrLines, loadVars, cmpVars >>

\* os.walk yields the next directory; process_folder runs up to its loop
RWalkNext ==
    /\ pc = "walk"
    /\ visited < MaxFolders
    /\ \E f \in FolderSet :
          LET profs == ProfilesOf(f)
          IN
          IF Eligible(f) /\ BasePathOf(f) # "" /\ profs # << >>
          THEN /\ folder' = f
               /\ basePath' = BasePathOf(f)
               /\ profiles' = profs
               /\ pc' = "compare"
          ELSE \* not eligible, or process_folder returns 0 before the loop
               /\ folder' = << >>
               /\ basePath' = ""
               /\ profiles' = << >>
               /\ pc' = "walk"
    /\ visited' = visited + 1
    /\ profIdx' = 0
    /\ compared' = << >>
    /\ folderTotal' = 0
    /\ UNCHANGED << rootOk, total, nDupLines, nErrLines, exitCode, loadVars, cmpVars >>

\* for prof in profiles: total += compare_and_report(base_path, prof)
RCompare ==
    /\ pc = "compare"
    /\ profIdx < Len(profiles)
    /\ LET prof == profiles[profIdx + 1]
           r == compare_and_report(FileOf(folder, basePath), FileOf(folder, prof))
       IN  IF r.raised
           THEN \* the exception leaves process_folder, walk_and_check and main
                /\ pc' = "crashed"
                /\ exitCode' = 1
                /\ UNCHANGED << profIdx, compared, folderTotal, nDupLines, nErrLines >>
           ELSE /\ folderTotal' = folderTotal + r.count
                /\ nDupLines' = nDupLines + Len(r.dups)
                /\ nErrLines' = nErrLines + Len(r.errs)
                /\ compared' = Append(compared, [name |-> prof, count |-> r.count,
                                                 errs |-> Len(r.errs)])
                /\ profIdx' = profIdx + 1
                /\ UNCHANGED << pc, exitCode >>
    /\ UNCHANGED << rootOk, visited, folder, basePath, profiles, total, loadVars, cmpVars >>

\* process_folder returns total (its locals end with it); walk_and_check adds it
RFolderEnd ==
    /\ pc = "compare"
    /\ profIdx = Len(profiles)
    /\ total' = total + folderTotal
    /\ pc' = "walk"
    /\ folder' = << >>
    /\ basePath' = ""
    /\ profiles' = << >>
    /\ profIdx' = 0
    /\ compared' = << >>
    /\ folderTotal' = 0
    /\ UNCHANGED << rootOk, visited, nDupLines, nErrLines, exitCode, loadVars, cmpVars >>

\* os.walk is exhausted: walk_and_check returns total
RWalkEnd ==
    /\ pc = "walk"
    /\ pc' = "report"
    /\ UNCHANGED << rootOk, visited, folder, basePath, profiles, profIdx, compared,
                    folderTotal, total, nDupLines, nErrLines, exitCode, loadVars, cmpVars >>

\* main, after walk_and_check
RExit ==
    /\ pc = "report"
    /\ exitCode' = ExitCodeOf(total)
    /\ pc' = "exit"
    /\ UNCHANGED << rootOk, visited, folder, basePath, profiles, profIdx, compared,
                    folderTotal, total, nDupLines, nErrLines, loadVars, cmpVars >>

NextRun == RMain \/ RWalkNext \/ RCompare \/ RFolderEnd \/ RWalkEnd \/ RExit

SpecRun == InitRun /\ [][NextRun]_vars

----------------------------------------------------------------------------
(* What a run has to report, stated from the files of the folder.          *)

\* the number of paths the two files share with equal values; 0 when one does not load
DeclCount(b, p) ==
    IF b.ok /\ p.ok
    THEN LET B == FlatFn(flatten(load_yaml_merged(b).data))
             P == FlatFn(flatten(load_yaml_merged(p).data))
         IN  Cardinality({ q \in DOMAIN P \cap DOMAIN B : PyEq(B[q], P[q]) })
    ELSE 0

StartsWith(s, pre) == Len(s) >= Len(pre) /\ SubSeq(s, 1, Len(pre)) = pre
EndsWith(s, suf) == Len(s) >= Len(suf) /\ SubSeq(s, Len(s) - Len(suf) + 1, Len(s)) = suf

\* application-<profile>.yaml|yml, by prefix and extension
IsProfileName(n) ==
    /\ StartsWith(n, "application-")
    /\ \E ext \in { ".yaml", ".yml" } :
          EndsWith(n, ext) /\ Len(n) >= Len("application-") + Len(ext)

\* the profile files of a folder
DeclProfileNames(f) ==
    { n \in DOMAIN f : IsProfileName(n) /\ n \notin { "application.yaml", "application.yml" } }

RECURSIVE SumDecl(_)
\* the findings of the current folder's base against each of the named files
SumDecl(S) ==
    IF S = { } THEN 0
    ELSE LET n == CHOOSE x \in S : TRUE
         IN  DeclCount(FileOf(folder, basePath), FileOf(folder, n)) + SumDecl(S \ { n })

RECURSIVE SumCounts(_)
SumCounts(cs) == IF cs = << >> THEN 0 ELSE Head(cs).count + SumCounts(Tail(cs))

ComparedNames == { compared[i].name : i \in 1..Len(compared) }

LoadFails(name) == ~FileOf(folder, name).ok

\* C5: the exit code is 2 when root is not a directory, and then no folder is visited
\* and nothing is reported; otherwise it is 1 exactly when at least one duplicate
\* finding was reported in some folder of the tree, and 0 exactly when none was.
\* No exit code is set before main ends.
C5_ExitCode ==
    /\ (pc = "exit" /\ ~rootOk) =>
          (exitCode = 2 /\ visited = 0 /\ nDupLines = 0 /\ nErrLines = 0)
    /\ (pc = "exit" /\ rootOk) =>
          /\ exitCode \in { 0, 1 }
          /\ exitCode = 1 <=> nDupLines > 0
          /\ exitCode = 0 <=> nDupLines = 0
    /\ pc \notin { "exit", "crashed" } => exitCode = -1

\* two folders visited, findings reported, exit code 1
C5_Witness ==
    pc = "exit" /\ rootOk /\ exitCode = 1 /\ visited = 2 /\ nDupLines >= 3

\* what holds while the profiles of a folder are compared
LoadFailuresCaught ==
    /\ pc # "crashed"
    /\ pc = "compare" =>
          /\ Len(compared) = profIdx
          /\ \A i \in 1..Len(compared) :
                /\ compared[i].name = profiles[i]
                /\ IF LoadFails(basePath) \/ LoadFails(compared[i].name)
                   THEN compared[i].count = 0 /\ compared[i].errs = 1
                   ELSE /\ compared[i].errs = 0
                        /\ compared[i].count
                             = DeclCount(FileOf(folder, basePath), FileOf(folder, compared[i].name))
          /\ folderTotal = SumCounts(compared)
          /\ total + folderTotal = nDupLines
    /\ pc \in { "main", "walk", "report", "exit" } => total = nDupLines

\* a folder is left only after its last profile, and its findings go into the total
FolderRunsToItsEnd ==
    (pc = "compare" /\ pc' # "compare") =>
        /\ pc' = "walk"
        /\ Len(compared) = Len(profiles)
        /\ total' = total + SumCounts(compared)
        /\ nErrLines' = nErrLines

\* C6: a load failure of the base or of a profile is not fatal: no exception leaves
\* compare_and_report; the comparison prints one ERROR line and counts zero findings;
\* the remaining profiles of the folder are compared and their findings counted; the
\* walk goes on with the next folder and the total holds every finding reported.
C6_LoadFailureIsNotFatal ==
    [] LoadFailuresCaught /\ [][FolderRunsToItsEnd]_vars

\* in the second folder a profile that fails to load is followed by one with findings,
\* after a first folder that had a load failure too
C6_Witness ==
    /\ pc = "compare"
    /\ visited = 2
    /\ profIdx = Len(profiles)
    /\ \E i, j \in 1..Len(compared) :
          /\ i < j
          /\ compared[i].errs = 1 /\ LoadFails(compared[i].name)
          /\ compared[j].count > 0
    /\ nErrLines > 1
    /\ total > 0

\* C9: every profile file of the folder is compared with the base exactly once, a name
\* that matches both patterns too; no base name is compared; the folder's total is the
\* sum of the findings over the distinct profile files.
C9_EachProfileOnce ==
    pc = "compare" =>
        /\ \A i, j \in 1..Len(compared) : i # j => compared[i].name # compared[j].name
        /\ \A i \in 1..Len(compared) :
              /\ compared[i].name \notin { "application.yaml", "application.yml", basePath }
              /\ compared[i].name \in DeclProfileNames(folder)
        /\ folderTotal = SumDecl(ComparedNames)
        /\ profIdx = Len(profiles) =>
              /\ ComparedNames = DeclProfileNames(folder)
              /\ Len(compared) = Cardinality(DeclProfileNames(folder))
              /\ folderTotal = SumDecl(DeclProfileNames(folder))

\* a folder whose two-segment profile and one more profile were compared, with findings
C9_Witness ==
    /\ pc = "compare"
    /\ profIdx = Len(profiles)
    /\ Len(compared) = 2
    /\ \E i \in 1..2 : compared[i].name = "application-dev-us.yaml" /\ compared[i].count > 0
    /\ \E i \in 1..2 : compared[i].name = "application-qa.yml"
    /\ folderTotal >= 2

====
